---- MODULE Spec2Model ----
(***************************************************************************)
(* rs-kepler: point masses under mutual Newtonian gravity.                 *)
(*                                                                         *)
(* f64 values are modelled as signed fixed-point numbers with Scale units  *)
(* per 1.0, rounded to nearest, saturating to +/-infinity beyond FMax and  *)
(* with a NaN value that absorbs every operation, as IEEE-754 does.        *)
(*                                                                         *)
(* Spec      the methods of Situation, one call per step                   *)
(* SpecTrail a two-body run longer than TRAIL_HISTORY ticks                *)
(* SpecBody  one Body driven as in physics_tests.rs, and Body == Body      *)
(* SpecLoop  build_ui's channel and receiver, with Situation::update       *)
(*           advancing one statement per step                              *)
(* SpecMaths the functions of EuclideanVector and Body::with_mass called   *)
(*           on arguments drawn from input sets                            *)
(***************************************************************************)
EXTENDS Integers, Sequences, FiniteSets, TLC

\* ---------------------------------------------------------------- bounds
Scale == 1000
FMax == 1000000
MaxBodies == 3
MaxTicks == 2
MaxZoomSteps == 1
MaxTrailTicks == 2004
MaxForces == 2
MaxStack == 6
MaxLoopBodies == 2
MaxEvents == 3

\* ------------------------------------------------------ program constants
GRAVITATIONAL_CONSTANT == 10
REFRESH_RATE == 50
TRAIL_HISTORY == 2000
SCROLL_STEP == 25
DENSITY == 3

\* ------------------------------------------------------------ f64 values
PInf == FMax + 1
NInf == -(FMax + 1)
NaN == FMax + 2

F(n) == n * Scale

Abs(a) == IF a < 0 THEN -a ELSE a
Sgn(a) == IF a > 0 THEN 1 ELSE IF a < 0 THEN -1 ELSE 0
IsFinite(a) == a >= -FMax /\ a <= FMax

Sat(r) == IF r > FMax THEN PInf ELSE IF r < -FMax THEN NInf ELSE r

\* n / d rounded to nearest, ties away from zero; n >= 0, d > 0
RoundDiv(n, d) == (n \div d) + (IF 2 * (n % d) >= d THEN 1 ELSE 0)

FNeg(a) == IF a = NaN THEN NaN ELSE -a

FAdd(a, b) ==
    IF a = NaN \/ b = NaN THEN NaN
    ELSE IF ~IsFinite(a) THEN (IF ~IsFinite(b) /\ b # a THEN NaN ELSE a)
    ELSE IF ~IsFinite(b) THEN b
    ELSE Sat(a + b)

FSub(a, b) == FAdd(a, FNeg(b))

FMul(a, b) ==
    IF a = NaN \/ b = NaN THEN NaN
    ELSE IF ~IsFinite(a) \/ ~IsFinite(b)
         THEN (IF a = 0 \/ b = 0 THEN NaN
               ELSE IF Sgn(a) * Sgn(b) > 0 THEN PInf ELSE NInf)
    ELSE LET x == Abs(a)
             y == Abs(b)
             hi == x \div Scale
             lo == x % Scale
         IN  Sat(Sgn(a) * Sgn(b) * (hi * y + RoundDiv(lo * y, Scale)))

FDiv(a, b) ==
    IF a = NaN \/ b = NaN THEN NaN
    ELSE IF ~IsFinite(a) THEN (IF ~IsFinite(b) THEN NaN
                               ELSE IF b < 0 THEN -a ELSE a)
    ELSE IF ~IsFinite(b) THEN 0
    ELSE IF b = 0 THEN (IF a = 0 THEN NaN ELSE IF a > 0 THEN PInf ELSE NInf)
    ELSE LET x == Abs(a)
             y == Abs(b)
             q == x \div y
             r == x % y
         IN  Sat(Sgn(a) * Sgn(b) * (q * Scale + RoundDiv(r * Scale, y)))

RECURSIVE IsqrtIter(_, _)
IsqrtIter(n, x) ==
    LET y == (x + n \div x) \div 2
    IN  IF y >= x THEN x ELSE IsqrtIter(n, y)

\* floor of the square root of n >= 0
Isqrt(n) == IF n = 0 THEN 0 ELSE IsqrtIter(n, n)

\* f64::hypot
FHypot(a, b) ==
    IF (a # NaN /\ ~IsFinite(a)) \/ (b # NaN /\ ~IsFinite(b)) THEN PInf
    ELSE IF a = NaN \/ b = NaN THEN NaN
    ELSE LET x == Abs(a)
             y == Abs(b)
             m == IF x > y THEN x ELSE y
             k == m \div 32000 + 1
         IN  IF k = 1 THEN Sat(Isqrt(x * x + y * y))
             ELSE Sat(k * Isqrt((x \div k) * (x \div k) + (y \div k) * (y \div k)))

\* f64 == f64 (NaN is equal to nothing)
FEq(a, b) == a # NaN /\ b # NaN /\ a = b

\* f64::sqrt, rounded to nearest
FSqrt(a) ==
    IF a = NaN \/ a < 0 THEN NaN
    ELSE IF a = PInf THEN PInf
    ELSE LET r == Isqrt(a * Scale)
         IN  IF a * Scale - r * r > r THEN r + 1 ELSE r

RECURSIVE PowInt(_, _)
PowInt(x, k) == IF k = 0 THEN F(1) ELSE FMul(x, PowInt(x, k - 1))

\* x ^ (e / Scale) for 0 <= e < Scale, one binary digit of the exponent per
\* square root
RECURSIVE PowFrac(_, _, _, _)
PowFrac(root, e, acc, digits) ==
    IF digits = 0 \/ e = 0 THEN acc
    ELSE LET r == FSqrt(root)
         IN  IF 2 * e >= Scale
             THEN PowFrac(r, 2 * e - Scale, FMul(acc, r), digits - 1)
             ELSE PowFrac(r, 2 * e, acc, digits - 1)

\* f64::powf for a base x >= 0 and a finite exponent e
FPowf(x, e) ==
    IF x = NaN \/ e = NaN THEN NaN
    ELSE IF e < 0 THEN FDiv(F(1), FMul(PowInt(x, (-e) \div Scale),
                                       PowFrac(x, (-e) % Scale, F(1), 12)))
    ELSE FMul(PowInt(x, e \div Scale), PowFrac(x, e % Scale, F(1), 12))

PI == (31416 * Scale) \div 10000

\* ------------------------------------------------ Coordinate, EuclideanVector
Coord(x, y) == [x |-> x, y |-> y]
Vec(dx, dy) == [dx |-> dx, dy |-> dy]

\* EuclideanVector::between
BetweenReversed(from, to) == Vec(FSub(from.x, to.x), FSub(from.y, to.y))

Between(from, to) == Vec(FSub(to.x, from.x), FSub(to.y, from.y))

\* EuclideanVector::magnitude
Magnitude(v) == FHypot(v.dx, v.dy)

\* EuclideanVector::versor
Versor(v) ==
    LET len == Magnitude(v)
    IN  Vec(FDiv(v.dx, len), FDiv(v.dy, len))

\* EuclideanVector::towards
Towards(to) == Vec(to.x, to.y)

\* impl Neg for EuclideanVector
VecNeg(v) == Vec(FNeg(v.dx), FNeg(v.dy))

\* derived Add / AddAssign, Mul<f64>, Div<f64> of EuclideanVector
VecAdd(v, w) == Vec(FAdd(v.dx, w.dx), FAdd(v.dy, w.dy))
VecMul(v, k) == Vec(FMul(v.dx, k), FMul(v.dy, k))
VecDiv(v, k) == Vec(FDiv(v.dx, k), FDiv(v.dy, k))

\* impl AddAssign<EuclideanVector> for Coordinate
CoordAdd(c, delta) == Coord(FAdd(c.x, delta.dx), FAdd(c.y, delta.dy))

\* impl Sub for Coordinate
CoordSub(c, other) == Vec(FSub(c.x, other.x), FSub(c.y, other.y))

\* impl PartialEq<f64> for EuclideanVector
VecEqScalarByWidth(v, other) == FEq(Abs(v.dx), other)

VecEqScalar(v, other) == FEq(Magnitude(v), other)

\* ----------------------------------------------------------------- Body
\* Body::new
BodyNew ==
    [name |-> "", position |-> Coord(0, 0), mass |-> 0, radius |-> 0,
     velocity |-> Vec(0, 0), forces |-> <<>>, highlighted |-> FALSE]

\* Body::at
At(b, arg) == [b EXCEPT !.position = arg]

\* Body::moving
Moving(b, arg) == [b EXCEPT !.velocity = arg]

\* Body::named
Named(b, arg) == [b EXCEPT !.name = arg]

\* Body::with_mass
WithMass(b, arg) ==
    LET volume == FDiv(arg, F(DENSITY))
    IN  [b EXCEPT !.mass = arg,
                  !.radius = FPowf(FMul(FDiv(F(3), FMul(F(4), PI)), volume),
                                   (33 * Scale) \div 100)]

\* the loop of Body::update: velocity += force / mass for each stored force
RECURSIVE Accelerate(_, _, _)
Accelerate(velocity, forces, mass) ==
    IF forces = <<>> THEN velocity
    ELSE Accelerate(VecAdd(velocity, VecDiv(Head(forces), mass)),
                    Tail(forces), mass)

\* Body::update
BodyUpdateStaleVelocity(b) ==
    LET v == Accelerate(b.velocity, b.forces, b.mass)
    IN  [b EXCEPT !.velocity = v, !.position = CoordAdd(b.position, v)]

BodyUpdateFromRest(b) ==
    [b EXCEPT !.position = CoordAdd(b.position, b.velocity),
              !.velocity = Accelerate(Vec(0, 0), b.forces, b.mass)]

BodyUpdate(b) ==
    [b EXCEPT !.position = CoordAdd(b.position, b.velocity),
              !.velocity = Accelerate(b.velocity, b.forces, b.mass)]

\* Body::pull_from
PullFromRepulsive(b, other) ==
    LET joining_vector == Between(other.position, b.position)
        distance == Magnitude(joining_vector)
    IN  VecMul(VecMul(Versor(joining_vector),
                      FDiv(FMul(b.mass, other.mass), FMul(distance, distance))),
               F(GRAVITATIONAL_CONSTANT))

PullFrom(b, other) ==
    LET joining_vector == Between(b.position, other.position)
        distance == Magnitude(joining_vector)
    IN  VecMul(VecMul(Versor(joining_vector),
                      FDiv(FMul(b.mass, other.mass), FMul(distance, distance))),
               F(GRAVITATIONAL_CONSTANT))

\* Body::add_pull_from
AddPullFrom(b, other) == [b EXCEPT !.forces = Append(@, PullFrom(b, other))]

\* impl PartialEq for Body, line 154: `self == other` on two &Body is the same
\* eq again. One activation of eq: pushes a frame for the nested call while the
\* stack has room, and aborts the process with a stack overflow when it has not.
EqActivation(frames) ==
    IF frames < MaxStack
    THEN [frames |-> frames + 1, outcome |-> "running"]
    ELSE [frames |-> frames, outcome |-> "stack_overflow"]

\* ----------------------------------------------------------------- Mark
\* Mark::new
MarkNew(at) == [position |-> at, age |-> 0]

\* Mark::update
MarkUpdate(m) == [m EXCEPT !.age = @ + 1]

\* ------------------------------------------------------------ Situation
\* Option<usize>
None == <<>>
Some(i) == <<i>>

\* Situation::new
SituationNew ==
    [bodies |-> <<>>, marks |-> <<>>, updates |-> 0, zoom_exponent |-> 0,
     fullscreen |-> FALSE, paused |-> FALSE, translation |-> Vec(0, 0),
     drag_start |-> Coord(0, 0), tracked_body |-> None]

\* Situation::add
Add(s, b) == [s EXCEPT !.bodies = Append(@, b)]

\* Situation::with
With(s, b) == Add(s, b)

\* the inner loop of Situation::update: body.add_pull_from(other_body) for
\* each other body, in order
RECURSIVE AddPulls(_, _)
AddPulls(b, others) ==
    IF others = <<>> THEN b
    ELSE AddPulls(AddPullFrom(b, Head(others)), Tail(others))

\* one iteration of the outer loop of Situation::update, for the body at
\* (0-based) index i: the situation with that body moved, its forces rebuilt
\* from the other bodies as they are now, a mark pushed and the flag set
ActivateBodyKeepForces(s, i) ==
    LET head == SubSeq(s.bodies, 1, i)
        tail == SubSeq(s.bodies, i + 2, Len(s.bodies))
        pulled == AddPulls(BodyUpdate(s.bodies[i + 1]), head \o tail)
    IN  [s EXCEPT !.bodies[i + 1] =
                      [pulled EXCEPT !.highlighted = (s.tracked_body = Some(i))],
                  !.marks = IF s.updates % (REFRESH_RATE \div 10) = 0
                            THEN Append(@, MarkNew(pulled.position))
                            ELSE @]

ActivateBodyPullFirst(s, i) ==
    LET head == SubSeq(s.bodies, 1, i)
        tail == SubSeq(s.bodies, i + 2, Len(s.bodies))
        pulled == BodyUpdate(AddPulls([s.bodies[i + 1] EXCEPT !.forces = <<>>],
                                      head \o tail))
    IN  [s EXCEPT !.bodies[i + 1] =
                      [pulled EXCEPT !.highlighted = (s.tracked_body = Some(i))],
                  !.marks = IF s.updates % (REFRESH_RATE \div 10) = 0
                            THEN Append(@, MarkNew(pulled.position))
                            ELSE @]

ActivateBodyMarkBeforeMove(s, i) ==
    LET head == SubSeq(s.bodies, 1, i)
        tail == SubSeq(s.bodies, i + 2, Len(s.bodies))
        moved == [BodyUpdate(s.bodies[i + 1]) EXCEPT !.forces = <<>>]
        pulled == AddPulls(moved, head \o tail)
    IN  [s EXCEPT !.bodies[i + 1] =
                      [pulled EXCEPT !.highlighted = (s.tracked_body = Some(i))],
                  !.marks = IF s.updates % (REFRESH_RATE \div 10) = 0
                            THEN Append(@, MarkNew(s.bodies[i + 1].position))
                            ELSE @]

ActivateBody(s, i) ==
    LET head == SubSeq(s.bodies, 1, i)
        tail == SubSeq(s.bodies, i + 2, Len(s.bodies))
        moved == [BodyUpdate(s.bodies[i + 1]) EXCEPT !.forces = <<>>]
        pulled == AddPulls(moved, head \o tail)
    IN  [s EXCEPT !.bodies[i + 1] =
                      [pulled EXCEPT !.highlighted = (s.tracked_body = Some(i))],
                  !.marks = IF s.updates % (REFRESH_RATE \div 10) = 0
                            THEN Append(@, MarkNew(pulled.position))
                            ELSE @]

\* for i in 0..self.bodies.len()
RECURSIVE Sweep(_, _)
Sweep(s, i) ==
    IF i >= Len(s.bodies) THEN s ELSE Sweep(ActivateBody(s, i), i + 1)

\* for mark in &mut self.marks { mark.update() }
AgeMarks(marks) == [k \in 1..Len(marks) |-> MarkUpdate(marks[k])]

\* the predicate of self.marks.retain
RetainedLate(mark) == mark.age <= TRAIL_HISTORY

Retained(mark) == mark.age < TRAIL_HISTORY

\* Situation::update
UpdateIgnoringPause(s) ==
    LET swept == Sweep(s, 0)
    IN  [swept EXCEPT !.marks = SelectSeq(AgeMarks(@), Retained),
                      !.updates = @ + 1]

Update(s) ==
    IF s.paused THEN s
    ELSE LET swept == Sweep(s, 0)
         IN  [swept EXCEPT !.marks = SelectSeq(AgeMarks(@), Retained),
                           !.updates = @ + 1]

\* ---- Situation::update statement by statement, for the body at index i
\* line 214: body.update()
MoveBody(s, i) == [s EXCEPT !.bodies[i + 1] = BodyUpdate(@)]

\* line 215: body.forces.clear()
ClearForcesOfAll(s, i) ==
    [s EXCEPT !.bodies = [k \in 1..Len(@) |-> [@[k] EXCEPT !.forces = <<>>]]]

ClearForces(s, i) == [s EXCEPT !.bodies[i + 1].forces = <<>>]

\* lines 217-219: for other_body in head.iter_mut().chain(tail)
RebuildForces(s, i) ==
    LET head == SubSeq(s.bodies, 1, i)
        tail == SubSeq(s.bodies, i + 2, Len(s.bodies))
    IN  [s EXCEPT !.bodies[i + 1] = AddPulls(@, head \o tail)]

\* lines 221-223: the mark, on the ticks that are sampled
PushMark(s, i) ==
    [s EXCEPT !.marks = IF s.updates % (REFRESH_RATE \div 10) = 0
                        THEN Append(@, MarkNew(s.bodies[i + 1].position))
                        ELSE @]

\* line 225: body.highlighted = self.tracked_body == Some(i)
SetHighlight(s, i) ==
    [s EXCEPT !.bodies[i + 1].highlighted = (s.tracked_body = Some(i))]

\* lines 228-230
AgeAllMarks(s) == [s EXCEPT !.marks = AgeMarks(@)]

\* line 231
RetainMarks(s) == [s EXCEPT !.marks = SelectSeq(@, Retained)]

\* line 232: self.updates += 1
CountUpdate(s) == [s EXCEPT !.updates = @ + 1]

\* the main thread's place in Situation::update: outside it, or about to run
\* the statement `at` for the body at index i
NotUpdating == [i |-> 0, at |-> "idle"]

\* line 207 and the head of the loop: where a call of update() starts
EnteredWhilePaused(s) ==
    IF s.paused THEN [i |-> Len(s.bodies), at |-> "count"]
    ELSE IF Len(s.bodies) = 0 THEN [i |-> 0, at |-> "age"]
    ELSE [i |-> 0, at |-> "update"]

Entered(s) ==
    IF s.paused THEN NotUpdating
    ELSE IF Len(s.bodies) = 0 THEN [i |-> 0, at |-> "age"]
    ELSE [i |-> 0, at |-> "update"]

\* the statement that follows the one at t, on n bodies
After(t, n) ==
    CASE t.at = "update" -> [t EXCEPT !.at = "clear"]
      [] t.at = "clear" -> [t EXCEPT !.at = "pull"]
      [] t.at = "pull" -> [t EXCEPT !.at = "mark"]
      [] t.at = "mark" -> [t EXCEPT !.at = "highlight"]
      [] t.at = "highlight" -> IF t.i + 1 < n
                               THEN [i |-> t.i + 1, at |-> "update"]
                               ELSE [i |-> n, at |-> "age"]
      [] t.at = "age" -> [t EXCEPT !.at = "retain"]
      [] t.at = "retain" -> [t EXCEPT !.at = "count"]
      [] OTHER -> NotUpdating

\* Situation::count_forces
RECURSIVE CountForcesFrom(_, _)
CountForcesFrom(s, k) ==
    IF k > Len(s.bodies) THEN 0
    ELSE Len(s.bodies[k].forces) + CountForcesFrom(s, k + 1)

CountForces(s) == CountForcesFrom(s, 1)

\* Situation::zoom_in, zoom_out, zoom_reset
ZoomIn(s) == [s EXCEPT !.zoom_exponent = FAdd(@, Scale \div 4)]
ZoomOut(s) == [s EXCEPT !.zoom_exponent = FSub(@, Scale \div 4)]
ZoomResetClearingTrail(s) == [s EXCEPT !.zoom_exponent = 0, !.marks = <<>>]

ZoomReset(s) == [s EXCEPT !.zoom_exponent = 0]

\* Situation::zoom
Zoom(s) == FPowf(F(2), s.zoom_exponent)

\* Situation::track_next
TrackNextWrapToFirst(s) ==
    IF s.tracked_body = None
    THEN (IF s.bodies # <<>> THEN [s EXCEPT !.tracked_body = Some(0)] ELSE s)
    ELSE LET tracked == s.tracked_body[1]
         IN  IF Len(s.bodies) > tracked + 1
             THEN [s EXCEPT !.tracked_body = Some(tracked + 1)]
             ELSE [s EXCEPT !.tracked_body = Some(0)]

TrackNextHighlighting(s) ==
    LET cursor ==
            IF s.tracked_body = None
            THEN (IF s.bodies # <<>> THEN Some(0) ELSE None)
            ELSE IF Len(s.bodies) > s.tracked_body[1] + 1
                 THEN Some(s.tracked_body[1] + 1)
                 ELSE None
    IN  [s EXCEPT !.tracked_body = cursor,
                  !.bodies = [k \in 1..Len(@) |->
                                [@[k] EXCEPT !.highlighted = (cursor = Some(k - 1))]]]

TrackNextPastEnd(s) ==
    IF s.tracked_body = None
    THEN (IF s.bodies # <<>> THEN [s EXCEPT !.tracked_body = Some(0)] ELSE s)
    ELSE LET tracked == s.tracked_body[1]
         IN  IF Len(s.bodies) >= tracked + 1
             THEN [s EXCEPT !.tracked_body = Some(tracked + 1)]
             ELSE [s EXCEPT !.tracked_body = None]

TrackNext(s) ==
    IF s.tracked_body = None
    THEN (IF s.bodies # <<>> THEN [s EXCEPT !.tracked_body = Some(0)] ELSE s)
    ELSE LET tracked == s.tracked_body[1]
         IN  IF Len(s.bodies) > tracked + 1
             THEN [s EXCEPT !.tracked_body = Some(tracked + 1)]
             ELSE [s EXCEPT !.tracked_body = None]

\* Situation::toggle_pause
TogglePauseRestarting(s) == [s EXCEPT !.paused = ~@, !.updates = 0]

TogglePause(s) == [s EXCEPT !.paused = ~@]

\* Situation::drag_started
DragStarted(s, window_position) == [s EXCEPT !.drag_start = window_position]

\* Situation::dragging_to
DraggingTo(s, window_position) ==
    LET delta == VecDiv(CoordSub(window_position, s.drag_start), Zoom(s))
    IN  [s EXCEPT !.translation = VecAdd(@, delta),
                  !.drag_start = window_position]

\* Situation::center_translation
CenterTranslationPanned(s) ==
    IF s.tracked_body = None THEN s.translation
    ELSE VecAdd(VecNeg(Towards(s.bodies[s.tracked_body[1] + 1].position)),
                s.translation)

CenterTranslation(s) ==
    IF s.tracked_body = None THEN s.translation
    ELSE VecNeg(Towards(s.bodies[s.tracked_body[1] + 1].position))

\* toggle_fullscreen, as far as the Situation goes
ToggleFullscreen(s) == [s EXCEPT !.fullscreen = ~@]

\* what paint and print_debug read of the Situation
Paint(s) ==
    [scale |-> Zoom(s), translation |-> CenterTranslation(s),
     bodies |-> s.bodies, marks |-> s.marks, forces |-> CountForces(s),
     iteration |-> s.updates, paused |-> s.paused]

\* ------------------------------------------------------------ the events
\* enum Event, with the key or the pointer position it carries
Event(kind, key, position) ==
    [kind |-> kind, key |-> key, position |-> position]

\* the arms of the receiver's match, but for UpdateModel and Draw; Escape and
\* F12 close the window and leave the Situation alone
HandleInput(s, event) ==
    CASE event.kind = "KeyPressed" /\ event.key = "F11" -> ToggleFullscreen(s)
      [] event.kind = "KeyPressed" /\ event.key = "plus" -> ZoomIn(s)
      [] event.kind = "KeyPressed" /\ event.key = "minus" -> ZoomOut(s)
      [] event.kind = "KeyPressed" /\ event.key = "_0" -> ZoomReset(s)
      [] event.kind = "KeyPressed" /\ event.key = "space" -> TogglePause(s)
      [] event.kind = "KeyPressed" /\ event.key = "Left" ->
            [s EXCEPT !.translation.dx = FAdd(@, F(SCROLL_STEP))]
      [] event.kind = "KeyPressed" /\ event.key = "Right" ->
            [s EXCEPT !.translation.dx = FSub(@, F(SCROLL_STEP))]
      [] event.kind = "KeyPressed" /\ event.key = "Up" ->
            [s EXCEPT !.translation.dy = FAdd(@, F(SCROLL_STEP))]
      [] event.kind = "KeyPressed" /\ event.key = "Down" ->
            [s EXCEPT !.translation.dy = FSub(@, F(SCROLL_STEP))]
      [] event.kind = "KeyPressed" /\ event.key = "Tab" -> TrackNext(s)
      [] event.kind = "Scrolling" /\ event.key = "Down" -> ZoomOut(s)
      [] event.kind = "Scrolling" /\ event.key = "Up" -> ZoomIn(s)
      [] event.kind = "MousePressed" -> DragStarted(s, event.position)
      [] event.kind = "MouseDragged" -> DraggingTo(s, event.position)
      [] OTHER -> s

\* glib dispatches the sources of the default main context one callback at a
\* time on the main thread: a callback starts only when none is running
MainLoopReentrant(t) == TRUE

MainLoopIdle(t) == t.at = "idle"

\* ================================================================ state
VARIABLES
    situation,   \* the Situation owned by the event loop (build_ui's `model`)
    body,        \* a Body driven on its own, as in physics_tests.rs
    other_body,  \* the argument of its latest add_pull_from / eq
    body_op,     \* the operation that ran last on `body`
    eq_frames,   \* activations of PartialEq::eq on the stack
    eq_outcome,  \* "none", "running" or "stack_overflow"
    channel,     \* the events sent to the glib channel and not yet received
    raised,      \* how many events have been sent so far
    tick,        \* where the main thread is inside Situation::update
    frame,       \* what the latest paint() read, None before the first
    coordinate_a, \* a Coordinate: the first argument of between
    coordinate_b, \* a Coordinate: the second argument of between, of towards
    scalar,      \* an f64: the right-hand side of ==, the argument of with_mass
    returned     \* the latest call on these arguments and what it returned

bodyVars == <<body, other_body, body_op, eq_frames, eq_outcome>>

loopVars == <<channel, raised, tick, frame>>

mathsVars == <<coordinate_a, coordinate_b, scalar, returned>>

vars == <<situation, bodyVars, loopVars, mathsVars>>

\* ---------------------------------------------------------------- inputs
\* the bodies of build_situation, in the order they are added, at a tenth of
\* their distances, speeds and star mass
BuildSituationBodies ==
    << Named(Moving(At(WithMass(BodyNew, F(7)), Coord(0, 0)), Vec(0, 0)),
             "Imagirus*"),
       Named(Moving(At(WithMass(BodyNew, F(1)), Coord(F(15), 0)),
                    Vec(0, Scale \div 5)), "Imagirus I"),
       Named(Moving(At(WithMass(BodyNew, F(1)), Coord(F(-20), 0)),
                    Vec(0, Scale \div 10)), "Imagirus II"),
       Named(Moving(At(WithMass(BodyNew, Scale \div 10), Coord(0, F(-10))),
                    Vec((9 * Scale) \div 100, 0)), "Feather"),
       Named(Moving(At(WithMass(BodyNew, F(2)), Coord(F(6), F(8))),
                    Vec(F(-1), 0)), "Comet") >>

\* a stray body, for a scene other than build_situation's
StrayBody ==
    Named(Moving(At(WithMass(BodyNew, F(2)), Coord(F(3), F(4))), Vec(F(1), F(-1))),
          "Stray")

\* the bodies that may be added as the k-th
BodyInputs(k) ==
    (IF k = 2 THEN {StrayBody} ELSE {})
        \cup (IF k <= Len(BuildSituationBodies)
              THEN {BuildSituationBodies[k]} ELSE {StrayBody})

\* where the pointer is pressed and dragged to; drag_start is (0, 0) at first
WindowPositions == { Coord(F(8), F(-6)) }

PositionInputs == { Coord(0, 0), Coord(F(3), F(-4)), Coord(F(-2), F(6)) }

OtherPositionInputs ==
    { Coord(0, 0), Coord(F(10), F(10)), Coord(F(-10), F(10)), Coord(F(3), F(-4)),
      Coord(F(10), 0) }

VelocityInputs == { Vec(0, 0), Vec(F(1), F(1)), Vec(F(-2), F(5)) }

MassInputs == { F(1), F(2), Scale \div 2 }

OtherBodies ==
    { WithMass(At(BodyNew, p), m) :
        p \in OtherPositionInputs, m \in {F(1), F(3)} }

\* ----------------------------------------------------- Situation's actions
\* nothing has been called yet on the arguments of the maths functions
NotCalled == [of |-> "none", value |-> 0]

\* the arguments the maths functions are called on
CoordinateInputs ==
    { Coord(0, 0), Coord(F(1), 0), Coord(F(4), F(3)), Coord(F(-3), F(4)) }

ScalarInputs == { F(1), F(2), F(5), F(70), Scale \div 10, NaN }

\* the events the timers and the GTK callbacks send
TimerEvents ==
    { Event("UpdateModel", "", Coord(0, 0)), Event("Draw", "", Coord(0, 0)) }

InputEvents ==
    { Event("KeyPressed", "Tab", Coord(0, 0)),
      Event("KeyPressed", "space", Coord(0, 0)),
      Event("KeyPressed", "minus", Coord(0, 0)),
      Event("KeyPressed", "_0", Coord(0, 0)),
      Event("Scrolling", "Up", Coord(0, 0)) }
        \cup { Event("MousePressed", "", p) : p \in WindowPositions }
        \cup { Event("MouseDragged", "", p) : p \in WindowPositions }

\* the state outside the Situation before anything runs
Elsewhere ==
    /\ body = BodyNew
    /\ other_body = BodyNew
    /\ body_op = "new"
    /\ eq_frames = 0
    /\ eq_outcome = "none"
    /\ channel = <<>>
    /\ raised = 0
    /\ tick = NotUpdating
    /\ frame = None

Init ==
    /\ situation = SituationNew
    /\ Elsewhere
    /\ coordinate_a = Coord(0, 0)
    /\ coordinate_b = Coord(0, 0)
    /\ scalar = 0
    /\ returned = NotCalled

\* build_situation: Situation::new().with(..).with(..), before the first tick
AddStep ==
    /\ Len(situation.bodies) < MaxBodies
    /\ situation.updates = 0
    /\ \E b \in BodyInputs(Len(situation.bodies) + 1) :
          situation' = With(situation, b)
    /\ UNCHANGED <<bodyVars, loopVars, mathsVars>>

\* Event::UpdateModel
UpdateUpTo(limit) ==
    /\ situation.updates < limit
    /\ situation' = Update(situation)
    /\ UNCHANGED <<bodyVars, loopVars, mathsVars>>

UpdateStep == UpdateUpTo(MaxTicks)

\* Event::KeyPressed(Tab)
TrackNextStep ==
    /\ situation' = TrackNext(situation)
    /\ UNCHANGED <<bodyVars, loopVars, mathsVars>>

\* Event::KeyPressed(space)
TogglePauseStep ==
    /\ situation' = TogglePause(situation)
    /\ UNCHANGED <<bodyVars, loopVars, mathsVars>>

\* Event::KeyPressed(plus), Event::Scrolling(Up)
ZoomInStep ==
    /\ situation.zoom_exponent < MaxZoomSteps * (Scale \div 4)
    /\ situation' = ZoomIn(situation)
    /\ UNCHANGED <<bodyVars, loopVars, mathsVars>>

\* Event::KeyPressed(minus), Event::Scrolling(Down)
ZoomOutStep ==
    /\ situation.zoom_exponent > -(MaxZoomSteps * (Scale \div 4))
    /\ situation' = ZoomOut(situation)
    /\ UNCHANGED <<bodyVars, loopVars, mathsVars>>

\* Event::KeyPressed(_0)
ZoomResetStep ==
    /\ situation' = ZoomReset(situation)
    /\ UNCHANGED <<bodyVars, loopVars, mathsVars>>

\* Event::MousePressed
DragStartedStep ==
    /\ \E p \in WindowPositions : situation' = DragStarted(situation, p)
    /\ UNCHANGED <<bodyVars, loopVars, mathsVars>>

\* Event::MouseDragged; drags are followed from an un-panned view only
DraggingToStep ==
    /\ situation.translation = Vec(0, 0)
    /\ \E p \in WindowPositions : situation' = DraggingTo(situation, p)
    /\ UNCHANGED <<bodyVars, loopVars, mathsVars>>

Next ==
    \/ AddStep
    \/ UpdateStep
    \/ TrackNextStep
    \/ TogglePauseStep
    \/ ZoomInStep
    \/ ZoomOutStep
    \/ ZoomResetStep
    \/ DragStartedStep
    \/ DraggingToStep

Spec == Init /\ [][Next]_vars

\* ------------------------------------------------------ the trail's run
\* build_situation's first two bodies, run for longer than TRAIL_HISTORY ticks
TrailInit ==
    /\ situation = With(With(SituationNew, BuildSituationBodies[1]),
                        BuildSituationBodies[2])
    /\ Elsewhere
    /\ coordinate_a = Coord(0, 0)
    /\ coordinate_b = Coord(0, 0)
    /\ scalar = 0
    /\ returned = NotCalled

TrailUpdateStep == UpdateUpTo(MaxTrailTicks)

TrailNext ==
    \/ TrailUpdateStep
    \/ TogglePauseStep

SpecTrail == TrailInit /\ [][TrailNext]_vars

\* ------------------------------------------------- one Body on its own
\* the builder calls of physics_tests.rs, then add_pull_from, then update
BodyAtStep ==
    /\ body_op \in {"new", "build"}
    /\ \E p \in PositionInputs : body' = At(body, p)
    /\ body_op' = "build"
    /\ UNCHANGED <<situation, other_body, eq_frames, eq_outcome>>
    /\ UNCHANGED <<loopVars, mathsVars>>

BodyMovingStep ==
    /\ body_op \in {"new", "build"}
    /\ \E v \in VelocityInputs : body' = Moving(body, v)
    /\ body_op' = "build"
    /\ UNCHANGED <<situation, other_body, eq_frames, eq_outcome>>
    /\ UNCHANGED <<loopVars, mathsVars>>

BodyWithMassStep ==
    /\ body_op \in {"new", "build"}
    /\ \E m \in MassInputs : body' = WithMass(body, m)
    /\ body_op' = "build"
    /\ UNCHANGED <<situation, other_body, eq_frames, eq_outcome>>
    /\ UNCHANGED <<loopVars, mathsVars>>

BodyNamedStep ==
    /\ body_op \in {"new", "build"}
    /\ body' = Named(body, "body")
    /\ body_op' = "build"
    /\ UNCHANGED <<situation, other_body, eq_frames, eq_outcome>>
    /\ UNCHANGED <<loopVars, mathsVars>>

BodyAddPullFromStep ==
    /\ body_op \in {"new", "build", "add_pull_from"}
    /\ Len(body.forces) < MaxForces
    /\ \E o \in OtherBodies :
          /\ body' = AddPullFrom(body, o)
          /\ other_body' = o
    /\ body_op' = "add_pull_from"
    /\ UNCHANGED <<situation, eq_frames, eq_outcome>>
    /\ UNCHANGED <<loopVars, mathsVars>>

BodyUpdateStep ==
    /\ body_op \in {"new", "build", "add_pull_from"}
    /\ body' = BodyUpdate(body)
    /\ body_op' = "update"
    /\ UNCHANGED <<situation, other_body, eq_frames, eq_outcome>>
    /\ UNCHANGED <<loopVars, mathsVars>>

\* body == other_body is evaluated: the first activation of eq
EqCallStep ==
    /\ body_op \in {"new", "build"}
    /\ \E o \in OtherBodies :
          /\ o # body
          /\ other_body' = o
    /\ eq_frames' = EqActivation(eq_frames).frames
    /\ eq_outcome' = EqActivation(eq_frames).outcome
    /\ body_op' = "eq"
    /\ UNCHANGED <<situation, body>>
    /\ UNCHANGED <<loopVars, mathsVars>>

\* line 154 of an activation: the nested eq
EqRecurseStep ==
    /\ body_op = "eq"
    /\ eq_outcome = "running"
    /\ eq_frames' = EqActivation(eq_frames).frames
    /\ eq_outcome' = EqActivation(eq_frames).outcome
    /\ UNCHANGED <<situation, body, other_body, body_op>>
    /\ UNCHANGED <<loopVars, mathsVars>>

BodyNext ==
    \/ BodyAtStep
    \/ BodyMovingStep
    \/ BodyWithMassStep
    \/ BodyNamedStep
    \/ BodyAddPullFromStep
    \/ BodyUpdateStep
    \/ EqCallStep
    \/ EqRecurseStep

SpecBody == Init /\ [][BodyNext]_vars

\* ------------------------------------------------------- the event loop
\* build_situation, then build_ui: the two timers and the GTK callbacks send
\* events to the channel, the receiver handles them one by one, and a call of
\* Situation::update advances one statement per step
BuildStep ==
    /\ raised = 0
    /\ Len(situation.bodies) < MaxLoopBodies
    /\ situation' =
         With(situation, BuildSituationBodies[Len(situation.bodies) + 1])
    /\ UNCHANGED <<bodyVars, loopVars, mathsVars>>

\* a callback that sends one of `events`
Raise(events) ==
    /\ MainLoopIdle(tick)
    /\ Len(situation.bodies) = MaxLoopBodies
    /\ raised < MaxEvents
    /\ \E event \in events : channel' = Append(channel, event)
    /\ raised' = raised + 1
    /\ UNCHANGED <<situation, tick, frame, bodyVars, mathsVars>>

\* gtk::timeout_add(1000 / UPDATE_RATE, ..), (1000 / REFRESH_RATE, ..)
RaiseTimerStep == Raise(TimerEvents)

\* connect_key_press_event, _button_press_, _motion_notify_, _scroll_event
RaiseInputStep == Raise(InputEvents)

\* the receiver is called with the oldest event of the channel
Receive(kinds) ==
    /\ MainLoopIdle(tick)
    /\ channel # <<>>
    /\ Head(channel).kind \in kinds
    /\ channel' = Tail(channel)

\* Event::UpdateModel => model.update(): the call is entered
HandleUpdateModelStep ==
    /\ Receive({"UpdateModel"})
    /\ tick' = Entered(situation)
    /\ UNCHANGED <<situation, raised, frame, bodyVars, mathsVars>>

\* Event::Draw => paint(&drawing_area, &context, &model)
HandleDrawStep ==
    /\ Receive({"Draw"})
    /\ frame' = Some(Paint(situation))
    /\ UNCHANGED <<situation, raised, tick, bodyVars, mathsVars>>

\* every other arm of the match
HandleInputStep ==
    /\ Receive({"KeyPressed", "Scrolling", "MousePressed", "MouseDragged"})
    /\ situation' = HandleInput(situation, Head(channel))
    /\ UNCHANGED <<raised, tick, frame, bodyVars, mathsVars>>

\* the statement at `at` of Situation::update runs and leaves `s`
Statement(at, s) ==
    /\ tick.at = at
    /\ situation' = s
    /\ tick' = After(tick, Len(situation.bodies))
    /\ UNCHANGED <<channel, raised, frame, bodyVars, mathsVars>>

MoveStep == Statement("update", MoveBody(situation, tick.i))

ClearStep == Statement("clear", ClearForces(situation, tick.i))

PullStep == Statement("pull", RebuildForces(situation, tick.i))

MarkStep == Statement("mark", PushMark(situation, tick.i))

HighlightStep == Statement("highlight", SetHighlight(situation, tick.i))

AgeStep == Statement("age", AgeAllMarks(situation))

RetainStep == Statement("retain", RetainMarks(situation))

CountStep == Statement("count", CountUpdate(situation))

LoopNext ==
    \/ BuildStep
    \/ RaiseTimerStep
    \/ RaiseInputStep
    \/ HandleUpdateModelStep
    \/ HandleDrawStep
    \/ HandleInputStep
    \/ MoveStep
    \/ ClearStep
    \/ PullStep
    \/ MarkStep
    \/ HighlightStep
    \/ AgeStep
    \/ RetainStep
    \/ CountStep

SpecLoop == Init /\ [][LoopNext]_vars

\* ------------------------------------------------- the maths functions
\* each function called on arguments drawn from the input sets
MathsInit ==
    /\ situation = SituationNew
    /\ Elsewhere
    /\ coordinate_a \in CoordinateInputs
    /\ coordinate_b \in CoordinateInputs
    /\ scalar \in ScalarInputs
    /\ returned = NotCalled

Call(of, value) ==
    /\ returned' = [of |-> of, value |-> value]
    /\ UNCHANGED <<situation, bodyVars, loopVars>>
    /\ UNCHANGED <<coordinate_a, coordinate_b, scalar>>

\* EuclideanVector::between(a, b)
BetweenCallStep == Call("between", Between(coordinate_a, coordinate_b))

\* EuclideanVector::towards(b) == scalar
EqScalarCallStep == Call("eq", VecEqScalar(Towards(coordinate_b), scalar))

\* Body::new().with_mass(scalar)
WithMassCallStep == Call("with_mass", WithMass(BodyNew, scalar))

MathsNext ==
    \/ BetweenCallStep
    \/ EqScalarCallStep
    \/ WithMassCallStep

SpecMaths == MathsInit /\ [][MathsNext]_vars

\* ================================================================ claims
\* a step that is a Situation::update() call made while not paused
NonPausedUpdate ==
    /\ ~situation.paused
    /\ situation'.updates # situation.updates
    /\ (UpdateStep \/ TrailUpdateStep)

\* a step that is a Situation::update() call made while paused
PausedUpdate == situation.paused /\ (UpdateStep \/ TrailUpdateStep)

\* the body that contributes the k-th stored force of the body at (1-based)
\* place i: the others in order, the body itself skipped
PullSource(i, k) == IF k < i THEN k ELSE k + 1

\* C1: while paused, a Situation::update() call leaves every body (position,
\* velocity, forces), the marks (membership and ages) and the tick counter
\* `updates` as they were; so does any number of such calls in a row.
C1_PausedUpdateChangesNothing ==
    [][PausedUpdate =>
          /\ situation'.bodies = situation.bodies
          /\ situation'.marks = situation.marks
          /\ situation'.updates = situation.updates]_vars

\* C1 witness: a paused simulation that has run, with moving bodies and marks,
\* in which update() can still be called
C1_Witness ==
    /\ situation.paused
    /\ situation.updates > 0
    /\ situation.updates < MaxTicks
    /\ situation.marks # <<>>
    /\ \E i \in 1..Len(situation.bodies) :
          situation.bodies[i].velocity # Vec(0, 0)

\* C2: at the end of every non-paused Situation::update() on N bodies, every
\* body stores exactly N - 1 forces: the k-th is its pull from the k-th of the
\* other bodies (itself skipped), however many ticks ran before.
C2_OnePullPerOtherBody ==
    [][NonPausedUpdate =>
          LET n == Len(situation'.bodies)
          IN  \A i \in 1..n :
                /\ Len(situation'.bodies[i].forces) = n - 1
                /\ \A k \in 1..(n - 1) :
                      LET j == PullSource(i, k)
                      IN  /\ j # i
                          /\ situation'.bodies[i].forces[k] =
                               PullFrom(situation'.bodies[i],
                                        IF j < i THEN situation'.bodies[j]
                                                 ELSE situation.bodies[j])]_vars

\* C2 witness: three bodies after a second tick, two forces each
C2_Witness ==
    /\ ~situation.paused
    /\ situation.updates >= 2
    /\ Len(situation.bodies) = 3
    /\ \A i \in 1..3 : Len(situation.bodies[i].forces) = 2

\* C3: every force stored by a non-paused Situation::update() is the pull
\* between the two bodies as they were before the tick moved any body.
C3_ForcesUsePreTickPositions ==
    [][NonPausedUpdate =>
          LET n == Len(situation.bodies)
          IN  \A i \in 1..n : \A k \in 1..(n - 1) :
                situation'.bodies[i].forces[k] =
                    PullFrom(situation.bodies[i],
                             situation.bodies[PullSource(i, k)])]_vars

RECURSIVE SumOfAccelerations(_, _)
SumOfAccelerations(forces, mass) ==
    IF forces = <<>> THEN Vec(0, 0)
    ELSE VecAdd(VecDiv(Head(forces), mass),
                SumOfAccelerations(Tail(forces), mass))

\* C5: for a body of mass > 0, Body::update() sets position to the old position
\* plus the old velocity and velocity to the old velocity plus the sum of
\* force / mass over the stored forces; forces, mass, radius and name stay.
C5_BodyUpdate ==
    [][(BodyUpdateStep /\ body.mass > 0) =>
          /\ body'.position = Coord(FAdd(body.position.x, body.velocity.dx),
                                    FAdd(body.position.y, body.velocity.dy))
          /\ body'.velocity =
               VecAdd(body.velocity, SumOfAccelerations(body.forces, body.mass))
          /\ body'.forces = body.forces
          /\ body'.mass = body.mass
          /\ body'.radius = body.radius
          /\ body'.name = body.name]_vars

\* C5 witness: an updated moving body of positive mass with two stored forces
C5_Witness ==
    /\ body_op = "update"
    /\ body.mass > 0
    /\ Len(body.forces) = 2
    /\ body.forces[1] # body.forces[2]
    /\ body.position # Coord(0, 0)
    /\ body.velocity.dx > F(1)

SurvivesNextTick(mark) == mark.age + 1 < TRAIL_HISTORY

\* C7: between Situation::update() calls every mark has age < TRAIL_HISTORY;
\* a non-paused tick makes every mark one older and drops, in that tick, those
\* that reach TRAIL_HISTORY.
C7_MarksAgeAndArePruned ==
    /\ [](\A k \in 1..Len(situation.marks) :
            situation.marks[k].age < TRAIL_HISTORY)
    /\ [][NonPausedUpdate =>
            LET kept == SelectSeq(situation.marks, SurvivesNextTick)
            IN  /\ Len(situation'.marks) >= Len(kept)
                /\ \A k \in 1..Len(kept) :
                      /\ situation'.marks[k].position = kept[k].position
                      /\ situation'.marks[k].age = kept[k].age + 1
                /\ \A k \in (Len(kept) + 1)..Len(situation'.marks) :
                      situation'.marks[k].age = 1]_vars

\* C7 witness: the trail after its oldest marks were dropped: more ticks than
\* TRAIL_HISTORY have run and the oldest mark left is one tick from the end
C7_Witness ==
    /\ situation.updates > TRAIL_HISTORY
    /\ situation.marks # <<>>
    /\ situation.marks[1].age = TRAIL_HISTORY - 1

\* C8: track_next() moves the cursor None -> Some(0) -> ... -> Some(n - 1) ->
\* None on n bodies, and leaves None alone when there is no body.
C8_TrackNextCycles ==
    [][TrackNextStep =>
          LET n == Len(situation.bodies)
              cur == situation.tracked_body
          IN  situation'.tracked_body =
                IF cur = None THEN (IF n = 0 THEN None ELSE Some(0))
                ELSE IF cur = Some(n - 1) THEN None
                ELSE Some(cur[1] + 1)]_vars

\* C8 witness: the cursor is back at None after the last of three bodies: the
\* third still carries the highlight of the tick in which it was tracked
C8_Witness ==
    /\ Len(situation.bodies) = 3
    /\ situation.tracked_body = None
    /\ situation.bodies[3].highlighted

\* C9: tracked_body is None or Some(i) with i < bodies.len().
C9_TrackedBodyInRange ==
    \/ situation.tracked_body = None
    \/ situation.tracked_body[1] < Len(situation.bodies)

\* C9 witness: the last of three bodies is tracked in a zoomed, panned view
\* of a simulation that has run
C9_Witness ==
    /\ Len(situation.bodies) = 3
    /\ situation.tracked_body = Some(2)
    /\ situation.updates > 0
    /\ situation.zoom_exponent # 0
    /\ situation.translation # Vec(0, 0)
    /\ CenterTranslation(situation) =
         VecNeg(Towards(situation.bodies[3].position))

\* C10: comparing two distinct bodies with == completes, with `not equal`: no
\* comparison ends in anything else.
C10_EqCompletes ==
    body_op = "eq" => eq_outcome \in {"running", "not_equal"}

\* a frame read from a Situation between two ticks: no mark is younger than
\* one tick, and every body stores one force per other body once a tick ran
Settled(f) ==
    LET n == Len(f.bodies)
    IN  /\ \A k \in 1..Len(f.marks) : f.marks[k].age >= 1
        /\ \A k \in 1..n :
              Len(f.bodies[k].forces) = IF f.iteration = 0 THEN 0 ELSE n - 1
        /\ f.forces = IF f.iteration = 0 THEN 0 ELSE n * (n - 1)

\* C11: the UpdateModel, Draw and input events are handled strictly one at a
\* time on the one Situation: no event is received while a call of update()
\* is under way, so no view mutator runs in the middle of a tick, and paint()
\* reads the Situation only between ticks, never with a tick partly applied.
C11_EventsHandledOneAtATime ==
    /\ [][(HandleUpdateModelStep \/ HandleDrawStep \/ HandleInputStep) =>
            tick = NotUpdating]_vars
    /\ [][HandleDrawStep => frame' = Some(Paint(situation))]_vars
    /\ [](frame # None => Settled(frame[1]))

\* C11 witness: a frame painted after a whole tick and a handled Tab key
C11_Witness ==
    /\ frame # None
    /\ frame[1].iteration = 1
    /\ frame[1].forces = MaxLoopBodies * (MaxLoopBodies - 1)
    /\ frame[1].marks # <<>>
    /\ frame[1].bodies = situation.bodies
    /\ situation.tracked_body # None

\* C12: for every mass m > 0, with_mass(m) sets mass to m and radius to
\* ((3 / (4 * pi)) * (m / 3.0)) raised to the power 1/3.
C12_RadiusIsCubeRoot ==
    (returned.of = "with_mass" /\ scalar # NaN /\ scalar > 0) =>
        /\ returned.value.mass = scalar
        /\ returned.value.radius =
             FPowf(FMul(FDiv(F(3), FMul(F(4), PI)), FDiv(scalar, F(3))),
                   FDiv(F(1), F(3)))

\* C13: within one non-paused Situation::update() the bodies are active one at
\* a time in index order 0..n-1: the index starts at 0 and moves on by one
\* only after the last statement for the body; while the body at index i is
\* active (and while the marks are aged) no other body changes in any field.
C13_OneBodyActiveInIndexOrder ==
    /\ [][tick # NotUpdating =>
            LET n == Len(situation.bodies)
            IN  /\ Len(situation'.bodies) = n
                /\ \A j \in 1..n :
                      j # tick.i + 1 => situation'.bodies[j] = situation.bodies[j]
                /\ tick'.i # tick.i =>
                      \/ tick.at = "highlight" /\ tick'.i = tick.i + 1
                      \/ tick.at = "count" /\ tick.i = n /\ tick' = NotUpdating]_vars
    /\ [][(tick = NotUpdating /\ tick' # NotUpdating) =>
            /\ tick'.i = 0
            /\ situation.bodies # <<>> => tick'.at = "update"]_vars

\* C13 witness: in the second tick the second body has been moved and is about
\* to rebuild its forces from the first body, which this tick moved already
C13_Witness ==
    /\ tick.at = "pull"
    /\ tick.i = 1
    /\ situation.updates = 1
    /\ situation.bodies[1].forces # <<>>
    /\ situation.bodies[2].forces = <<>>

\* C14: `updates` never decreases: the last statement of every non-paused
\* update() adds exactly 1 to it, and no other step (a paused update, add,
\* track_next, toggle_pause, a zoom, a drag, any earlier statement of the
\* tick) changes it.
C14_UpdatesCountsTicks ==
    [][/\ situation'.updates =
            IF tick.at = "count" THEN situation.updates + 1
            ELSE situation.updates
       /\ tick.at = "count" => tick' = NotUpdating
       /\ (tick # NotUpdating /\ tick' = NotUpdating) => tick.at = "count"
       /\ HandleUpdateModelStep =>
            (situation.paused <=> tick' = NotUpdating)]_vars

\* C14 witness: one tick counted, the pause toggled, and a third event (as a
\* further UpdateModel) handled without effect
C14_Witness ==
    /\ situation.updates = 1
    /\ situation.paused
    /\ raised = 3
    /\ channel = <<>>
    /\ frame = None
    /\ situation.tracked_body = None
    /\ situation.drag_start = Coord(0, 0)
    /\ tick = NotUpdating

\* C15: a non-paused update() that runs with the counter at t appends one mark
\* per body, in body order, at the position the body has after its move in this
\* tick, when t mod (REFRESH_RATE / 10) = 0, that is on ticks 0, 5, 10, ...,
\* and appends no mark on any other tick.
C15_MarksSampledEveryFifthTick ==
    [][NonPausedUpdate =>
          LET n == Len(situation.bodies)
              kept == Len(SelectSeq(situation.marks, SurvivesNextTick))
              sampled == situation.updates % (REFRESH_RATE \div 10) = 0
          IN  /\ sampled <=> situation.updates % 5 = 0
              /\ Len(situation'.marks) = kept + (IF sampled THEN n ELSE 0)
              /\ sampled =>
                    \A k \in 1..n :
                      /\ situation'.marks[kept + k].age = 1
                      /\ situation'.marks[kept + k].position =
                           situation'.bodies[k].position
                      /\ situation'.marks[kept + k].position =
                           CoordAdd(situation.bodies[k].position,
                                    situation.bodies[k].velocity)]_vars

\* C15 witness: after eleven ticks the trail holds the marks of ticks 0, 5 and
\* 10 for both bodies, the latest at the bodies' positions
C15_Witness ==
    /\ situation.updates = 11
    /\ Len(situation.marks) = 6
    /\ situation.marks[5].position = situation.bodies[1].position
    /\ situation.marks[6].position = situation.bodies[2].position
    /\ situation.marks[6].position # situation.marks[4].position

\* C16: zoom_in, zoom_out, zoom_reset, toggle_pause, drag_started, dragging_to
\* and track_next leave every body's position, velocity, mass and forces, the
\* marks and the tick counter as they were.
C16_ViewMutatorsLeavePhysicsAlone ==
    [][(\/ ZoomInStep
        \/ ZoomOutStep
        \/ ZoomResetStep
        \/ TogglePauseStep
        \/ DragStartedStep
        \/ DraggingToStep
        \/ TrackNextStep) =>
          /\ Len(situation'.bodies) = Len(situation.bodies)
          /\ \A i \in 1..Len(situation.bodies) :
                /\ situation'.bodies[i].position = situation.bodies[i].position
                /\ situation'.bodies[i].velocity = situation.bodies[i].velocity
                /\ situation'.bodies[i].mass = situation.bodies[i].mass
                /\ situation'.bodies[i].forces = situation.bodies[i].forces
          /\ situation'.marks = situation.marks
          /\ situation'.updates = situation.updates]_vars

\* C16 witness: a simulation that has run, with forces and marks, then paused,
\* zoomed, dragged, and moved on to track the second body since the last tick
C16_Witness ==
    /\ situation.updates > 0
    /\ situation.marks # <<>>
    /\ situation.paused
    /\ situation.zoom_exponent # 0
    /\ situation.drag_start # Coord(0, 0)
    /\ situation.translation # Vec(0, 0)
    /\ situation.tracked_body = Some(1)
    /\ ~situation.bodies[2].highlighted
    /\ situation.bodies[2].forces # <<>>

\* C17: center_translation() is `translation` exactly when no body is tracked,
\* and otherwise (-x, -y) for the tracked body's position (x, y), whatever the
\* pan and the drags have made of `translation`.
C17_CenterTranslation ==
    CenterTranslation(situation) =
        IF situation.tracked_body = None THEN situation.translation
        ELSE LET position ==
                     situation.bodies[situation.tracked_body[1] + 1].position
             IN  Vec(FNeg(position.x), FNeg(position.y))

\* C17 witness: the second body is tracked after it has moved, in a view that
\* was dragged: the centre is the negated position, not the pan
C17_Witness ==
    /\ situation.tracked_body = Some(1)
    /\ situation.updates > 0
    /\ situation.translation # Vec(0, 0)
    /\ situation.bodies[2].position # Coord(0, 0)
    /\ CenterTranslation(situation) # situation.translation
    /\ CenterTranslation(situation).dx = -situation.bodies[2].position.x

\* C18: Body::update() on a body of positive mass with no stored force leaves
\* the velocity as it was, whatever the velocity and the position are.
C18_ForceFreeMotionIsUniform ==
    [][(BodyUpdateStep /\ body.mass > 0 /\ body.forces = <<>>) =>
          body'.velocity = body.velocity]_vars

\* C18 witness: a body of mass 2 moving at (-2, 5) from (3, -4), updated with
\* no force stored
C18_Witness ==
    /\ body_op = "update"
    /\ body.mass = F(2)
    /\ body.forces = <<>>
    /\ body.velocity = Vec(F(-2), F(5))
    /\ body.position = Coord(F(1), F(1))

\* C19: v == s for a vector v and a scalar s is true exactly when
\* hypot(v.dx, v.dy) equals s; so (1, 0) == 1 and (4, 3) == 5 are true and
\* (1, 0) == 2 and (4, 3) == 1 are false.
C19_EqualToScalarIsEqualMagnitude ==
    returned.of = "eq" =>
        LET v == Towards(coordinate_b)
        IN  /\ returned.value <=> FEq(FHypot(v.dx, v.dy), scalar)
            /\ (v = Vec(F(1), 0) /\ scalar = F(1)) => returned.value
            /\ (v = Vec(F(4), F(3)) /\ scalar = F(5)) => returned.value
            /\ (v = Vec(F(1), 0) /\ scalar = F(2)) => ~returned.value
            /\ (v = Vec(F(4), F(3)) /\ scalar = F(1)) => ~returned.value

\* C19 witness: (4, 3) == 5 has been evaluated and is true
C19_Witness ==
    /\ returned.of = "eq"
    /\ coordinate_b = Coord(F(4), F(3))
    /\ scalar = F(5)
    /\ returned.value = TRUE

\* C20: between(a, b) is (b.x - a.x, b.y - a.y), the vector from a to b, and
\* is the component-wise negation of between(b, a).
C20_BetweenPointsFromAToB ==
    returned.of = "between" =>
        /\ returned.value = Vec(coordinate_b.x - coordinate_a.x,
                                coordinate_b.y - coordinate_a.y)
        /\ returned.value.dx = -Between(coordinate_b, coordinate_a).dx
        /\ returned.value.dy = -Between(coordinate_b, coordinate_a).dy

\* C20 witness: between((1, 0), (-3, 4)) has returned (-4, 4)
C20_Witness ==
    /\ returned.of = "between"
    /\ coordinate_a = Coord(F(1), 0)
    /\ coordinate_b = Coord(F(-3), F(4))
    /\ returned.value = Vec(F(-4), F(4))

\* the force that the body at (1-based) place i stores as its pull from the
\* body at place j
ForceFrom(s, i, j) == s.bodies[i].forces[IF j < i THEN j ELSE j - 1]

\* C21: at the end of every non-paused Situation::update(), for every two
\* distinct bodies i and j, the force i stores as its pull from j is the
\* negation of the force j stores as its pull from i.
C21_ForceSymmetry ==
    [][NonPausedUpdate =>
          LET n == Len(situation'.bodies)
          IN  \A i \in 1..n : \A j \in 1..n :
                i # j => ForceFrom(situation', i, j) =
                             VecNeg(ForceFrom(situation', j, i))]_vars

\* the highlighted flags of the bodies, in order
Highlights(s) == [k \in 1..Len(s.bodies) |-> s.bodies[k].highlighted]

\* C22: at the end of every non-paused Situation::update() the body at index i
\* is highlighted exactly when tracked_body = Some(i), so at most one body is;
\* track_next() changes no flag, and neither does any step other than a
\* non-paused update, so a cursor moved while paused shows in the flags only
\* after the next non-paused tick.
C22_HighlightFollowsCursorAtTicks ==
    [][/\ NonPausedUpdate =>
            /\ \A k \in 1..Len(situation'.bodies) :
                  situation'.bodies[k].highlighted <=>
                      situation'.tracked_body = Some(k - 1)
            /\ \A k, l \in 1..Len(situation'.bodies) :
                  (situation'.bodies[k].highlighted
                   /\ situation'.bodies[l].highlighted) => k = l
       /\ situation'.updates = situation.updates =>
            \A k \in 1..Len(situation.bodies) :
              Highlights(situation')[k] = Highlights(situation)[k]
       /\ TrackNextStep => Highlights(situation') = Highlights(situation)]_vars

\* C22 witness: paused after a tick that highlighted the first body, with the
\* cursor moved on to the second: the flags still show the first
C22_Witness ==
    /\ situation.paused
    /\ situation.updates > 0
    /\ situation.tracked_body = Some(1)
    /\ situation.bodies[1].highlighted
    /\ ~situation.bodies[2].highlighted

====
